---- MODULE Spec2Model ----
(***************************************************************************)
(* Model of the NewsTicker headline pipeline (class NewsTicker):           *)
(* loadHeadlines, loadFallbackFromTxt, loadFromCache, saveToCache,         *)
(* renderHeadlines, the service button handlers and the refresh triggers.  *)
(*                                                                         *)
(* JavaScript strings on which the code does character work (toLowerCase,  *)
(* includes, startsWith, split) are sequences of one-character strings;    *)
(* an object is a function from its property names to values, and a        *)
(* property that is undefined is absent from the DOMAIN.                   *)
(*                                                                         *)
(* The code runs on one thread.  A step of the model is what runs between  *)
(* two suspension points: the awaits on fetch(), on a body read            *)
(* (json(), text()) and the event-loop turns that start a handler.         *)
(***************************************************************************)
EXTENDS Integers, Sequences, FiniteSets, TLC

VARIABLES
    currentService,       \* this.currentService
    currentServiceIndex,  \* this.currentServiceIndex
    isLoading,            \* this.isLoading
    offlineMode,          \* this.offlineMode
    hidden,               \* '.news-ticker-content' carries class 'hidden'
    btnTransform,         \* serviceBtn.style.transform
    headlines,            \* this.headlines
    tickerList,           \* children of this.tickerList, as the rendered headlines
    localStorage,         \* window.localStorage, key -> stored string
    now,                  \* Date.now()
    ticks,                \* number of clock advances so far (bounded)
    timerAt,              \* instant at which the setInterval callback is next due
    cycles,               \* the invocations of loadHeadlines: position and locals
    hist,                 \* history of each invocation (observation only)
    writer,               \* invocation that last assigned a non-empty this.headlines
    lastRender,           \* the last list handed to renderHeadlines (observation only)
    arg,                  \* input of the pure-function specifications
    res                   \* result of the pure-function specifications

vars == <<currentService, currentServiceIndex, isLoading, offlineMode, hidden,
          btnTransform, headlines, tickerList, localStorage, now, ticks, timerAt, cycles,
          hist, writer, lastRender, arg, res>>

(***************************************************************************)
(* Bounds of the model and constants of the program.                       *)
(***************************************************************************)
\* this.options.maxHeadlines: a constructor option (default 50), kept small
MaxHeadlines == 2

\* invocations of loadHeadlines followed at a time
MaxCycles == 2

\* number of clock advances in one behaviour
MaxTicks == 2

\* service switches followed when the button is studied alone
MaxSwitches == 2

\* cache time to live in ms
TTL == 3600000

\* period of the setInterval refresh in ms
RefreshInterval == 300000

Min(a, b) == IF a < b THEN a ELSE b

(***************************************************************************)
(* Strings.                                                                *)
(***************************************************************************)
Uppers == <<"A","B","C","D","E","F","G","H","I","J","K","L","M",
            "N","O","P","Q","R","S","T","U","V","W","X","Y","Z">>
Lowers == <<"a","b","c","d","e","f","g","h","i","j","k","l","m",
            "n","o","p","q","r","s","t","u","v","w","x","y","z">>

LowerMap == [c \in {Uppers[i] : i \in DOMAIN Uppers} |->
                Lowers[CHOOSE i \in DOMAIN Uppers : Uppers[i] = c]]

UpperMap == [c \in {Lowers[i] : i \in DOMAIN Lowers} |->
                Uppers[CHOOSE i \in DOMAIN Lowers : Lowers[i] = c]]

LowerChar(c) == IF c \in DOMAIN LowerMap THEN LowerMap[c] ELSE c

UpperChar(c) == IF c \in DOMAIN UpperMap THEN UpperMap[c] ELSE c

\* String.prototype.toLowerCase
ToLowerCase(s) == [i \in DOMAIN s |-> LowerChar(s[i])]

\* String.prototype.toUpperCase
ToUpperCase(s) == [i \in DOMAIN s |-> UpperChar(s[i])]

\* String.prototype.includes
Includes(s, sub) ==
    \E i \in 0..(Len(s) - Len(sub)) : SubSeq(s, i + 1, i + Len(sub)) = sub

\* String.prototype.startsWith
StartsWith(s, prefix) ==
    /\ Len(prefix) <= Len(s)
    /\ SubSeq(s, 1, Len(prefix)) = prefix

\* Array.prototype.slice(0, n)
Slice(list, n) == SubSeq(list, 1, Min(Len(list), n))

(***************************************************************************)
(* Services.                                                               *)
(***************************************************************************)
serviceCycle == <<"sports", "local", "news", "weather", "tweets", "entertainment">>

Services == {serviceCycle[i] : i \in DOMAIN serviceCycle}

\* the characters of a service identifier
ServiceChars(svc) ==
    CASE svc = "sports" -> <<"s","p","o","r","t","s">>
      [] svc = "local" -> <<"l","o","c","a","l">>
      [] svc = "news" -> <<"n","e","w","s">>
      [] svc = "weather" -> <<"w","e","a","t","h","e","r">>
      [] svc = "tweets" -> <<"t","w","e","e","t","s">>
      [] svc = "entertainment" -> <<"e","n","t","e","r","t","a","i","n","m","e","n","t">>

(***************************************************************************)
(* Headlines.  A headline is an object with the properties source, title,  *)
(* url and ts, any of which may be absent; null is the JavaScript null.    *)
(***************************************************************************)
NullItem == [isNull |-> TRUE]

IsNull(h) == "isNull" \in DOMAIN h

Has(h, k) == k \in DOMAIN h

\* (h.ts || 0)
TsOr0(h) == IF Has(h, "ts") THEN h.ts ELSE 0

\* (h.source || '')
SourceOrEmpty(h) == IF Has(h, "source") THEN h.source ELSE <<>>

plymouth == <<"p","l","y","m","o","u","t","h">>
pafc == <<"p","a","f","c">>

(***************************************************************************)
(* The sort and cap policy of loadHeadlines.                               *)
(***************************************************************************)
\* aIsPlymouth / bIsPlymouth
IsPlymouth(h) ==
    \/ Includes(ToLowerCase(SourceOrEmpty(h)), plymouth)
    \/ Includes(ToLowerCase(SourceOrEmpty(h)), pafc)

\* a comparator without the Plymouth priority
CompareByTsOnly(a, b, svc) == TsOr0(b) - TsOr0(a)

\* the comparator handed to Array.prototype.sort
Compare(a, b, svc) ==
    IF svc = "sports" /\ IsPlymouth(a) /\ ~IsPlymouth(b) THEN -1
    ELSE IF svc = "sports" /\ ~IsPlymouth(a) /\ IsPlymouth(b) THEN 1
    ELSE TsOr0(b) - TsOr0(a)

\* Array.prototype.sort is stable: x goes behind every element that does
\* not compare greater than it
RECURSIVE InsertSorted(_, _, _)
InsertSorted(sorted, x, svc) ==
    IF sorted = <<>> THEN <<x>>
    ELSE IF Compare(Head(sorted), x, svc) <= 0
         THEN <<Head(sorted)>> \o InsertSorted(Tail(sorted), x, svc)
         ELSE <<x>> \o sorted

RECURSIVE SortHeadlines(_, _)
SortHeadlines(list, svc) ==
    IF list = <<>> THEN <<>>
    ELSE InsertSorted(SortHeadlines(SubSeq(list, 1, Len(list) - 1), svc),
                      list[Len(list)], svc)

\* headlines.sort(...).slice(0, this.options.maxHeadlines)
SortAndSlice(list, svc) == Slice(SortHeadlines(list, svc), MaxHeadlines)

(***************************************************************************)
(* JSON text of a cache entry.  JSON.stringify writes the properties that  *)
(* are present as key/value pairs; JSON.parse rebuilds the object.         *)
(***************************************************************************)
KeyOrder == <<"source", "title", "url", "ts">>

\* the text "null"
NullText == <<<<"null", TRUE>>>>

StringifyItem(h) ==
    IF IsNull(h) THEN NullText
    ELSE LET Pairs(keys) == [i \in DOMAIN keys |-> <<keys[i], h[keys[i]]>>]
         IN  Pairs(SelectSeq(KeyOrder, LAMBDA k : Has(h, k)))

\* a parser that loses the url of a headline
ParseItemLossy(pairs) ==
    IF pairs = NullText THEN NullItem
    ELSE [k \in {pairs[i][1] : i \in DOMAIN pairs} \ {"url"} |->
             pairs[CHOOSE i \in DOMAIN pairs : pairs[i][1] = k][2]]

ParseItem(pairs) ==
    IF pairs = NullText THEN NullItem
    ELSE [k \in {pairs[i][1] : i \in DOMAIN pairs} |->
             pairs[CHOOSE i \in DOMAIN pairs : pairs[i][1] = k][2]]

\* JSON.stringify({headlines, timestamp})
Stringify(data) ==
    [headlines |-> [i \in DOMAIN data.headlines |-> StringifyItem(data.headlines[i])],
     timestamp |-> data.timestamp]

\* JSON.parse of a well-formed text
Parse(text) ==
    [headlines |-> [i \in DOMAIN text.headlines |-> ParseItem(text.headlines[i])],
     timestamp |-> text.timestamp]

(***************************************************************************)
(* localStorage.  getItem yields null for a missing key; a stored string   *)
(* is JSON text or, when corrupt, text that JSON.parse rejects.            *)
(***************************************************************************)
CacheKey(svc) == <<"news-ticker-cache-", svc>>

CacheKeys == {CacheKey(s) : s \in Services}

NoItem == [kind |-> "null"]

Garbage == [kind |-> "garbage"]

StoredText(json) == [kind |-> "text", json |-> json]

\* saveToCache; quota: setItem throws, which the method swallows
saveToCache(store, svc, list, t, quota) ==
    IF quota THEN store
    ELSE [store EXCEPT ![CacheKey(svc)] =
              StoredText(Stringify([headlines |-> list, timestamp |-> t]))]

\* renderHeadlines on this.headlines = list.  threw: an exception leaves the
\* method; rendered: the list was put on screen and saveToCache was called
renderHeadlines(list, dom, store, svc, t, quota) ==
    IF list = <<>>
    THEN [threw |-> FALSE, rendered |-> FALSE, tickerList |-> dom, localStorage |-> store]
    ELSE IF \E i \in DOMAIN list : IsNull(list[i])
    THEN [threw |-> TRUE, rendered |-> FALSE, tickerList |-> <<>>, localStorage |-> store]
    ELSE [threw |-> FALSE, rendered |-> TRUE, tickerList |-> list \o list,
          localStorage |-> saveToCache(store, svc, list, t, quota)]

\* loadFromCache with the age test `<=`
loadFromCacheLate(list, dom, store, svc, t, denied, quota) ==
    LET keep == [headlines |-> list, tickerList |-> dom, localStorage |-> store,
                 hit |-> FALSE, renders |-> 0]
        Fresh(data, r) ==
            [headlines |-> data.headlines, tickerList |-> r.tickerList,
             localStorage |-> r.localStorage, hit |-> TRUE,
             renders |-> IF r.rendered THEN 1 ELSE 0]
        Read(data) ==
            IF t - data.timestamp <= TTL
            THEN Fresh(data, renderHeadlines(data.headlines, dom, store, svc, t, quota))
            ELSE [keep EXCEPT !.localStorage = [store EXCEPT ![CacheKey(svc)] = NoItem]]
    IN  IF denied \/ store[CacheKey(svc)].kind # "text" THEN keep
        ELSE Read(Parse(store[CacheKey(svc)].json))

\* loadFromCache that caps the list it installs at maxHeadlines
loadFromCacheCapped(list, dom, store, svc, t, denied, quota) ==
    LET keep == [headlines |-> list, tickerList |-> dom, localStorage |-> store,
                 hit |-> FALSE, renders |-> 0]
        Fresh(capped, r) ==
            [headlines |-> capped, tickerList |-> r.tickerList,
             localStorage |-> r.localStorage, hit |-> TRUE,
             renders |-> IF r.rendered THEN 1 ELSE 0]
        Install(capped) ==
            Fresh(capped, renderHeadlines(capped, dom, store, svc, t, quota))
        Read(data) ==
            IF t - data.timestamp < TTL
            THEN Install(Slice(data.headlines, MaxHeadlines))
            ELSE [keep EXCEPT !.localStorage = [store EXCEPT ![CacheKey(svc)] = NoItem]]
    IN  IF denied \/ store[CacheKey(svc)].kind # "text" THEN keep
        ELSE Read(Parse(store[CacheKey(svc)].json))

\* loadFromCache on this.headlines = list.  denied: getItem throws
loadFromCache(list, dom, store, svc, t, denied, quota) ==
    LET keep == [headlines |-> list, tickerList |-> dom, localStorage |-> store,
                 hit |-> FALSE, renders |-> 0]
        Fresh(data, r) ==
            [headlines |-> data.headlines, tickerList |-> r.tickerList,
             localStorage |-> r.localStorage, hit |-> TRUE,
             renders |-> IF r.rendered THEN 1 ELSE 0]
        Read(data) ==
            IF t - data.timestamp < TTL
            THEN Fresh(data, renderHeadlines(data.headlines, dom, store, svc, t, quota))
            ELSE [keep EXCEPT !.localStorage = [store EXCEPT ![CacheKey(svc)] = NoItem]]
    IN  IF denied \/ store[CacheKey(svc)].kind # "text" THEN keep
        ELSE Read(Parse(store[CacheKey(svc)].json))

\* a catch branch that consults the cache whatever the loader left
CatchTailEager(list, dom, store, svc, t, denied, quota) ==
    LET Result(c, r) ==
            [headlines |-> c.headlines,
             tickerList |-> r.tickerList,
             localStorage |-> r.localStorage,
             cacheRead |-> TRUE,
             hit |-> c.hit,
             renders |-> c.renders + (IF r.rendered THEN 1 ELSE 0),
             outcome |-> IF r.threw THEN "Threw"
                         ELSE IF c.headlines = <<>> THEN "Empty"
                         ELSE IF c.hit THEN "Cache"
                         ELSE "Fallback"]
        Recovered(c) ==
            Result(c, renderHeadlines(c.headlines, c.tickerList, c.localStorage,
                                      svc, t, quota))
    IN  Recovered(loadFromCache(list, dom, store, svc, t, denied, quota))

\* the end of the catch branch of loadHeadlines, after loadFallbackFromTxt
\* has returned with this.headlines = list
CatchTail(list, dom, store, svc, t, denied, quota) ==
    LET Result(c, r) ==
            [headlines |-> c.headlines,
             tickerList |-> r.tickerList,
             localStorage |-> r.localStorage,
             cacheRead |-> (list = <<>>),
             hit |-> c.hit,
             renders |-> c.renders + (IF r.rendered THEN 1 ELSE 0),
             outcome |-> IF r.threw THEN "Threw"
                         ELSE IF c.headlines = <<>> THEN "Empty"
                         ELSE IF c.hit THEN "Cache"
                         ELSE "Fallback"]
        Recovered(c) ==
            Result(c, renderHeadlines(c.headlines, c.tickerList, c.localStorage,
                                      svc, t, quota))
    IN  Recovered(IF list = <<>>
                  THEN loadFromCache(list, dom, store, svc, t, denied, quota)
                  ELSE [headlines |-> list, tickerList |-> dom, localStorage |-> store,
                        hit |-> FALSE, renders |-> 0])

(***************************************************************************)
(* The text of a fallback file and its directives (loadFallbackFromTxt).   *)
(* A text is the sequence of its lines, as text.split('\n') yields them.   *)
(***************************************************************************)
IsSpace(c) == c = " "

RECURSIVE TrimLeft(_)
TrimLeft(s) == IF s # <<>> /\ IsSpace(Head(s)) THEN TrimLeft(Tail(s)) ELSE s

RECURSIVE TrimRight(_)
TrimRight(s) ==
    IF s # <<>> /\ IsSpace(s[Len(s)]) THEN TrimRight(SubSeq(s, 1, Len(s) - 1)) ELSE s

\* String.prototype.trim
Trim(s) == TrimRight(TrimLeft(s))

\* text.split('\n').map(l => l.trim()).filter(l => l && !l.startsWith('#'))
FilterLines(text) ==
    SelectSeq([i \in DOMAIN text |-> Trim(text[i])],
              LAMBDA l : l # <<>> /\ ~StartsWith(l, <<"#">>))

\* index of the first space of s, Len(s) + 1 when there is none
FirstSpace(s) ==
    IF \E i \in DOMAIN s : IsSpace(s[i])
    THEN CHOOSE i \in DOMAIN s : IsSpace(s[i]) /\ \A j \in 1..(i - 1) : ~IsSpace(s[j])
    ELSE Len(s) + 1

\* line.split(/\s+/) of a trimmed, non-empty line
RECURSIVE SplitWords(_)
SplitWords(s) ==
    IF s = <<>> THEN <<>>
    ELSE <<SubSeq(s, 1, FirstSpace(s) - 1)>>
         \o SplitWords(TrimLeft(SubSeq(s, FirstSpace(s), Len(s))))

fileSuffix == <<"-","f","i","l","e">>

jsonFile == <<"j","s","o","n","-","f","i","l","e">>

dotJson == <<".","j","s","o","n">>

\* /\.json(\s|$)/i.test(l)
HasJsonToken(l) ==
    \E i \in DOMAIN l :
        /\ i + 4 <= Len(l)
        /\ ToLowerCase(SubSeq(l, i, i + 4)) = dotJson
        /\ (i + 4 = Len(l) \/ IsSpace(l[i + 5]))

\* a lookup that takes the first line that is a directive of either kind
DirectiveFirst(lines, svc) ==
    LET First(found) == IF found # <<>> THEN Head(found) ELSE <<>>
    IN  First(SelectSeq(lines, LAMBDA l :
                  \/ StartsWith(ToLowerCase(l), ServiceChars(svc) \o fileSuffix)
                  \/ StartsWith(ToLowerCase(l), jsonFile)))

\* the directive line of the file for the service, <<>> when there is none:
\* the first `<service>-file` line, else the first `json-file` line
\* (lines.find: the head of the lines that match)
Directive(lines, svc) ==
    LET First(specific, generic) ==
            IF specific # <<>> THEN Head(specific)
            ELSE IF generic # <<>> THEN Head(generic)
            ELSE <<>>
    IN  First(SelectSeq(lines, LAMBDA l :
                  StartsWith(ToLowerCase(l), ServiceChars(svc) \o fileSuffix)),
              SelectSeq(lines, LAMBDA l : StartsWith(ToLowerCase(l), jsonFile)))

\* parts[1] of the directive, <<>> when undefined
DirectivePath(lines, svc) ==
    LET Second(parts) == IF Len(parts) >= 2 THEN parts[2] ELSE <<>>
    IN  Second(SplitWords(Directive(lines, svc)))

\* jsonLine.split(/\s+/)[0] of the first line holding a .json token, else <<>>
DirectJsonPath(lines) ==
    LET Path(found) == IF found # <<>> THEN SplitWords(Head(found))[1] ELSE <<>>
    IN  Path(SelectSeq(lines, HasJsonToken))

\* the URL tried first for a JSON path
RootUrl(jsonPath) ==
    IF StartsWith(jsonPath, <<"/">>) THEN jsonPath ELSE <<"/">> \o jsonPath

(***************************************************************************)
(* Mapping of the items of a JSON resource to headlines.                   *)
(***************************************************************************)
\* item.k is truthy
Truthy(item, k) ==
    /\ Has(item, k)
    /\ IF k = "ts" THEN item[k] # 0 ELSE item[k] # <<>>

\* `${item.hashtag || ''} @${item.username || 'user'}: ${item.comment || item.text || ''}`.trim()
TweetTitle(item) ==
    Trim((IF Truthy(item, "hashtag") THEN item.hashtag ELSE <<>>)
         \o <<" ", "@">>
         \o (IF Truthy(item, "username") THEN item.username ELSE <<"u","s","e","r">>)
         \o <<":", " ">>
         \o (IF Truthy(item, "comment") THEN item.comment
             ELSE IF Truthy(item, "text") THEN item.text ELSE <<>>))

twitterCom == <<"h","t","t","p","s",":","/","/","t","w","i","t","t","e","r",".","c","o","m","/">>

hashUrl == <<"#">>

\* mapItemToHeadline of the directive path
mapItemToHeadline(item, svc, t) ==
    IF svc = "tweets"
    THEN [source |-> <<"T","W","I","T","T","E","R">>,
          title |-> TweetTitle(item),
          url |-> IF Truthy(item, "username") THEN twitterCom \o item.username
                  ELSE IF Truthy(item, "url") THEN item.url ELSE hashUrl,
          ts |-> t]
    ELSE [source |-> ToUpperCase(IF Truthy(item, "source") THEN item.source
                                 ELSE ServiceChars(svc)),
          title |-> IF Truthy(item, "title") THEN item.title
                    ELSE IF Truthy(item, "text") THEN item.text
                    ELSE IF Truthy(item, "headline") THEN item.headline ELSE <<>>,
          url |-> IF Truthy(item, "url") THEN item.url ELSE hashUrl,
          ts |-> IF Truthy(item, "ts") THEN item.ts ELSE t]

\* mapItemToHeadline of the direct .json line path
mapItemDirect(item, svc, t) ==
    [source |-> ToUpperCase(IF Truthy(item, "source") THEN item.source
                            ELSE ServiceChars(svc)),
     title |-> IF Truthy(item, "title") THEN item.title ELSE TweetTitle(item),
     url |-> IF Truthy(item, "url") THEN item.url
             ELSE IF Truthy(item, "username") THEN twitterCom \o item.username
             ELSE hashUrl,
     ts |-> IF Truthy(item, "ts") THEN item.ts ELSE t]

\* a plain line as a headline
mapLine(line, svc, t) ==
    [source |-> ToUpperCase(ServiceChars(svc)), title |-> line, url |-> hashUrl, ts |-> t]

\* a parsed JSON document: an array, an object with array properties, or null
\* Array.isArray(data) ? data : data.items ? data.items : data.tweets ? ... : []
ItemsOf(data) ==
    IF data.kind = "array" THEN data.items
    ELSE IF "items" \in DOMAIN data.props THEN data.props.items
    ELSE IF "tweets" \in DOMAIN data.props THEN data.props.tweets
    ELSE <<>>

\* jsonRes.json() rejects, or evaluating the mapping throws: data is null,
\* or a mapped item is null
MapThrows(data) ==
    \/ data.kind \in {"unparseable", "null"}
    \/ LET HasNull(items) == \E i \in DOMAIN items : IsNull(items[i])
       IN  HasNull(Slice(ItemsOf(data), MaxHeadlines))

\* items.slice(0, maxHeadlines).map(mapItemToHeadline)
MapDirective(data, svc, t) ==
    LET Map(items) == [i \in DOMAIN items |-> mapItemToHeadline(items[i], svc, t)]
    IN  Map(Slice(ItemsOf(data), MaxHeadlines))

MapDirect(data, svc, t) ==
    LET Map(items) == [i \in DOMAIN items |-> mapItemDirect(items[i], svc, t)]
    IN  Map(Slice(ItemsOf(data), MaxHeadlines))

\* lines.slice(0, maxHeadlines).map(line => ({...}))
MapLines(lines, svc, t) ==
    LET Map(kept) == [i \in DOMAIN kept |-> mapLine(kept[i], svc, t)]
    IN  Map(Slice(lines, MaxHeadlines))

(***************************************************************************)
(* What the environment can answer: bodies of the remote endpoint, texts   *)
(* of the fallback files, JSON resources, and what an earlier page session *)
(* may have left in localStorage.                                          *)
(***************************************************************************)
Digits == <<"1","2","3","4","5","6","7","8","9">>

bbc == <<"B","B","C">>

pafcTv == <<"P","A","F","C"," ","T","V">>

herald == <<"P","l","y","m","o","u","t","h">>

\* item i of the feed of a service
FeedItem(svc, i) ==
    LET t == ServiceChars(svc) \o <<"-", Digits[i]>>
        u == <<"/", Digits[i]>>
    IN  CASE i = 1 -> [source |-> pafcTv, title |-> t, url |-> u, ts |-> 1]
          [] i = 2 -> [source |-> bbc, title |-> t, url |-> u, ts |-> 3]
          [] i = 3 -> [source |-> bbc, title |-> t, url |-> u]
          [] OTHER -> [source |-> herald, title |-> t, url |-> u, ts |-> i]

\* a feed one longer than the cap
Feed(svc) == [i \in 1..(MaxHeadlines + 1) |-> FeedItem(svc, i)]

\* what response.json() can resolve to, by what it holds
RemoteBody(kind, svc) ==
    CASE kind = "feed" -> [kind |-> "array", items |-> Feed(svc)]
      [] kind = "empty" -> [kind |-> "array", items |-> <<>>]
      [] kind = "nullitem" -> [kind |-> "array", items |-> <<NullItem>>]
      [] kind = "object" -> [kind |-> "object", props |-> <<>>]
      [] kind = "unparseable" -> [kind |-> "unparseable"]

BodyKinds == {"feed", "empty", "nullitem", "object", "unparseable"}

tweetItem == [hashtag |-> <<"#","x">>, username |-> <<"u">>, comment |-> <<"h","i">>]

jsonItem(i) ==
    IF i = 1 THEN tweetItem
    ELSE IF i = 2 THEN [source |-> <<"b","b","c">>, text |-> <<"J","2">>, ts |-> 5]
    ELSE [title |-> <<"J", Digits[i]>>, url |-> <<"/","j">>]

\* what jsonRes.json() can resolve to, by what it holds
JsonDoc(kind) ==
    CASE kind = "array" ->
             [kind |-> "array", items |-> [i \in 1..(MaxHeadlines + 1) |-> jsonItem(i)]]
      [] kind = "tweets" -> [kind |-> "object", props |-> [tweets |-> <<tweetItem>>]]
      [] kind = "none" -> [kind |-> "object", props |-> <<>>]
      [] kind = "null" -> [kind |-> "null"]
      [] kind = "unparseable" -> [kind |-> "unparseable"]

DocKinds == {"array", "tweets", "none", "null", "unparseable"}

plainText ==
    << <<"#"," ","c">>, <<>> >>
    \o [i \in 1..(MaxHeadlines + 1) |-> <<" ", "A", Digits[i], " ">>]

blankText == << <<"#">>, <<" ">> >>

bothText(svc) ==
    << jsonFile \o <<" ","g",".","j","s","o","n">>,
       ServiceChars(svc) \o fileSuffix \o <<" ","/","s",".","j","s","o","n">>,
       <<"A","1">> >>

\* the two directives in the other order
swappedText(svc) ==
    << ServiceChars(svc) \o fileSuffix \o <<" ","/","s",".","j","s","o","n">>,
       jsonFile \o <<" ","g",".","j","s","o","n">>,
       <<"A","1">> >>

directText == << <<"d",".","j","s","o","n">> >>

\* the text of the fallback file of a service, by what it holds
FileText(kind, svc) ==
    CASE kind = "plain" -> plainText
      [] kind = "blank" -> blankText
      [] kind = "both" -> bothText(svc)
      [] kind = "swapped" -> swappedText(svc)
      [] kind = "direct" -> directText

TextKinds == {"plain", "blank", "both", "swapped", "direct"}

\* the service whose cache key an earlier session has written
PriorServices == {serviceCycle[1]}

\* entries left under the key of a service: a list saved by a session whose
\* maxHeadlines was larger, one ms before or exactly at its expiry; text that
\* does not parse; JSON whose headlines array holds null
PriorEntries(svc, t) ==
    { StoredText(Stringify([headlines |-> Feed(svc), timestamp |-> t - TTL + 1])),
      StoredText(Stringify([headlines |-> Feed(svc), timestamp |-> t - TTL])),
      Garbage,
      StoredText([headlines |-> <<NullText>>, timestamp |-> t - 1]) }

EmptyStore == [k \in CacheKeys |-> NoItem]

PriorStores(t) ==
    {EmptyStore}
    \cup UNION {{[EmptyStore EXCEPT ![CacheKey(s)] = e] : e \in PriorEntries(s, t)} :
                   s \in PriorServices}

(***************************************************************************)
(* Invocations of loadHeadlines.                                           *)
(***************************************************************************)
Cycles == 1..MaxCycles

IdleCycle ==
    [pc |-> "idle", trigger |-> "none", reqService |-> "none", file |-> "none",
     text |-> "none", jsonPath |-> <<>>]

NoHist ==
    [remote |-> "pending", fb |-> "none", fbEmpty |-> FALSE, produced |-> FALSE,
     cacheRead |-> FALSE, outcome |-> "none", renders |-> 0, listOf |-> "none",
     blanked |-> FALSE, denied |-> FALSE, full |-> FALSE, via |-> {}]

NoRender == [by |-> 0, writer |-> 0, writerDone |-> TRUE]

\* arg, res: the last direct call of a method and what it gave
NoCall == [op |-> "none"]

Started(c) == cycles[c].pc # "idle"

InFlight(c) == cycles[c].pc \notin {"idle", "done"}

Settled(c) == cycles[c].pc = "done"

\* at most MaxCycles invocations are followed at a time
CanStart == \E c \in Cycles : ~Started(c)

\* the first free place
NextId == CHOOSE c \in Cycles : ~Started(c) /\ \A d \in 1..(c - 1) : Started(d)

\* the synchronous head of loadHeadlines: the request is issued for svc
BeginLoad(trig, svc) ==
    [cycles EXCEPT ![NextId] =
        [IdleCycle EXCEPT !.pc = "fetch", !.trigger = trig, !.reqService = svc]]

Done(cycle) ==
    [cycle EXCEPT !.pc = "done", !.file = "none", !.text = "none", !.jsonPath = <<>>]

\* a switch whose .finally() callback leaves the flag as it is
LoadingAfterStuck(c) == isLoading

\* the .finally() callback of cycleToNextService
LoadingAfter(c) == IF cycles[c].trigger = "switch" THEN FALSE ELSE isLoading

ui == <<hidden, btnTransform>>

clock == <<now, ticks, timerAt>>

pure == <<arg, res>>

service == <<currentService, currentServiceIndex>>

(***************************************************************************)
(* The state after `new NewsTicker()`: init() has run setupTicker, the     *)
(* first loadHeadlines() up to its fetch, and setInterval.  The clock      *)
(* starts one TTL after the epoch, so an older entry can be in storage.    *)
(***************************************************************************)
Constructed ==
    /\ currentService = "sports"
    /\ currentServiceIndex = 0
    /\ isLoading = FALSE
    /\ offlineMode = FALSE
    /\ hidden = FALSE
    /\ btnTransform = ""
    /\ headlines = <<>>
    /\ tickerList = <<>>
    /\ now = TTL
    /\ ticks = 0
    /\ timerAt = TTL + RefreshInterval
    /\ cycles = [c \in Cycles |->
                    IF c = 1
                    THEN [IdleCycle EXCEPT !.pc = "fetch", !.trigger = "init",
                                           !.reqService = "sports"]
                    ELSE IdleCycle]
    /\ hist = [c \in Cycles |-> NoHist]
    /\ writer = 0
    /\ lastRender = NoRender

\* a first visit: nothing is stored
Init == Constructed /\ localStorage = EmptyStore /\ arg = NoCall /\ res = NoCall

\* a later visit: an earlier session may have left an entry
InitPrior ==
    Constructed /\ localStorage \in PriorStores(TTL) /\ arg = NoCall /\ res = NoCall

(***************************************************************************)
(* The service button, the timers and refresh().                           *)
(***************************************************************************)
\* `if (this.isLoading)` of the click handler
ClickBlocked == isLoading

\* a step of the cycle that never comes back to its first entry
NextIndexShort(i) == IF i + 1 = Len(serviceCycle) THEN 1 ELSE i + 1

\* `(this.currentServiceIndex + 1) % this.serviceCycle.length`
NextIndex(i) == (i + 1) % Len(serviceCycle)

cycleToNextService ==
    IF isLoading
    THEN UNCHANGED vars
    ELSE /\ CanStart
         /\ isLoading' = TRUE
         /\ headlines' = <<>>
         /\ writer' = 0
         /\ tickerList' = <<>>
         /\ currentServiceIndex' = NextIndex(currentServiceIndex)
         /\ currentService' = serviceCycle[currentServiceIndex' + 1]
         /\ cycles' = BeginLoad("switch", currentService')
         /\ UNCHANGED <<offlineMode, localStorage, hist, lastRender, ui, clock, pure>>

\* a click handler without the loading guards: the switch is made at once
serviceBtnClickUnguarded ==
    /\ CanStart
    /\ isLoading' = TRUE
    /\ headlines' = <<>>
    /\ writer' = 0
    /\ tickerList' = <<>>
    /\ currentServiceIndex' = (currentServiceIndex + 1) % Len(serviceCycle)
    /\ currentService' = serviceCycle[currentServiceIndex' + 1]
    /\ cycles' = BeginLoad("switch", currentService')
    /\ UNCHANGED <<offlineMode, localStorage, hist, lastRender, ui, clock, pure>>

serviceBtnClick ==
    IF ClickBlocked
    THEN /\ btnTransform' = "scale(0.95)"
         /\ UNCHANGED <<service, isLoading, offlineMode, hidden, headlines, tickerList,
                        localStorage, cycles, hist, writer, lastRender, clock, pure>>
    ELSE IF hidden
    THEN /\ hidden' = FALSE
         /\ UNCHANGED <<service, isLoading, offlineMode, btnTransform, headlines,
                        tickerList, localStorage, cycles, hist, writer, lastRender,
                        clock, pure>>
    ELSE cycleToNextService

\* the setTimeout callback of a rejected click
TransformTimeout ==
    /\ btnTransform # ""
    /\ btnTransform' = ""
    /\ UNCHANGED <<service, isLoading, offlineMode, hidden, headlines, tickerList,
                   localStorage, cycles, hist, writer, lastRender, clock, pure>>

serviceBtnDblClick ==
    /\ ~isLoading
    /\ hidden' = ~hidden
    /\ UNCHANGED <<service, isLoading, offlineMode, btnTransform, headlines, tickerList,
                   localStorage, cycles, hist, writer, lastRender, clock, pure>>

\* the setInterval callback
IntervalRefresh ==
    /\ now >= timerAt
    /\ CanStart
    /\ timerAt' = now + RefreshInterval
    /\ headlines' = <<>>
    /\ writer' = 0
    /\ cycles' = BeginLoad("timer", currentService)
    /\ UNCHANGED <<service, isLoading, offlineMode, tickerList, localStorage, hist,
                   lastRender, ui, now, ticks, pure>>

refresh ==
    /\ CanStart
    /\ headlines' = <<>>
    /\ writer' = 0
    /\ tickerList' = <<>>
    /\ cycles' = BeginLoad("refresh", currentService)
    /\ UNCHANGED <<service, isLoading, offlineMode, localStorage, hist, lastRender,
                   ui, clock, pure>>

\* the clock advances by one of the steps
Tick(steps) ==
    /\ ticks < MaxTicks
    /\ \E d \in steps : now' = now + d
    /\ ticks' = ticks + 1
    /\ UNCHANGED <<service, isLoading, offlineMode, headlines, tickerList, localStorage,
                   cycles, hist, writer, lastRender, ui, timerAt, arg>>

(***************************************************************************)
(* loadHeadlines: the remote stage.  A fetch settles "ok", with a non-ok   *)
(* "status", or it rejects.                                                *)
(***************************************************************************)
FetchResults == {"ok", "status", "reject"}

\* a catch branch that forgets the offline flag
EnterCatchSilent(c, dom) ==
    /\ headlines' = <<>>
    /\ writer' = 0
    /\ tickerList' = dom
    /\ cycles' = [cycles EXCEPT ![c].pc = "fb1", ![c].file = currentService]
    /\ hist' = [hist EXCEPT ![c].remote = "failed", ![c].fb = "running",
                            ![c].blanked = (dom # tickerList)]
    /\ UNCHANGED <<service, isLoading, offlineMode, localStorage, lastRender, ui,
                   clock, pure>>

\* the head of the catch branch: offline, list cleared, loadFallbackFromTxt
\* entered up to its first fetch.  dom: this.tickerList as the try left it
EnterCatch(c, dom) ==
    /\ offlineMode' = TRUE
    /\ headlines' = <<>>
    /\ writer' = 0
    /\ tickerList' = dom
    /\ cycles' = [cycles EXCEPT ![c].pc = "fb1", ![c].file = currentService]
    /\ hist' = [hist EXCEPT ![c].remote = "failed", ![c].fb = "running",
                            ![c].blanked = (dom # tickerList)]
    /\ UNCHANGED <<service, isLoading, localStorage, lastRender, ui, clock, pure>>

\* await fetch(endpoint) settles
RemoteResponse(c, results) ==
    /\ cycles[c].pc = "fetch"
    /\ \E r \in results :
          IF r = "ok"
          THEN /\ cycles' = [cycles EXCEPT ![c].pc = "json"]
               /\ UNCHANGED <<service, isLoading, offlineMode, headlines, tickerList,
                              localStorage, hist, writer, lastRender, ui, clock, pure>>
          ELSE EnterCatch(c, tickerList)

\* the comparator is called on null
SortThrows(items) == Len(items) >= 2 /\ \E i \in DOMAIN items : IsNull(items[i])

\* a try block that drops the list when the service it was requested for is
\* no longer the current one
RemoteSuccessChecked(c, items, quota) ==
    LET Commit(list, r) ==
            IF r.threw
            THEN EnterCatch(c, r.tickerList)
            ELSE /\ headlines' = list
                 /\ offlineMode' = FALSE
                 /\ tickerList' = r.tickerList
                 /\ localStorage' = r.localStorage
                 /\ writer' = IF list = <<>> THEN 0 ELSE c
                 /\ lastRender' = IF r.rendered
                                  THEN [by |-> c, writer |-> c, writerDone |-> TRUE]
                                  ELSE lastRender
                 /\ cycles' = [cycles EXCEPT ![c] = Done(cycles[c])]
                 /\ hist' = [hist EXCEPT ![c].remote = "ok",
                                         ![c].outcome = "Remote",
                                         ![c].renders = IF r.rendered THEN 1 ELSE 0,
                                         ![c].full = (quota /\ r.rendered),
                                         ![c].listOf = IF list = <<>> THEN "none"
                                                       ELSE cycles[c].reqService]
                 /\ isLoading' = LoadingAfter(c)
                 /\ UNCHANGED <<service, ui, clock, pure>>
        Drop(list) ==
            /\ cycles' = [cycles EXCEPT ![c] = Done(cycles[c])]
            /\ hist' = [hist EXCEPT ![c].remote = "ok",
                                    ![c].outcome = "Remote",
                                    ![c].listOf = IF list = <<>> THEN "none"
                                                  ELSE cycles[c].reqService]
            /\ isLoading' = LoadingAfter(c)
            /\ UNCHANGED <<service, offlineMode, headlines, tickerList, localStorage,
                           writer, lastRender, ui, clock, pure>>
        Show(list) ==
            IF cycles[c].reqService # currentService
            THEN Drop(list)
            ELSE Commit(list, renderHeadlines(list, tickerList, localStorage,
                                              currentService, now, quota))
    IN  Show(SortAndSlice(items, currentService))

\* the try block from the sort to its end, the remote list being in hand
RemoteSuccess(c, items, quota) ==
    LET Commit(list, r) ==
            IF r.threw
            THEN EnterCatch(c, r.tickerList)
            ELSE /\ headlines' = list
                 /\ offlineMode' = FALSE
                 /\ tickerList' = r.tickerList
                 /\ localStorage' = r.localStorage
                 /\ writer' = IF list = <<>> THEN 0 ELSE c
                 /\ lastRender' = IF r.rendered
                                  THEN [by |-> c, writer |-> c, writerDone |-> TRUE]
                                  ELSE lastRender
                 /\ cycles' = [cycles EXCEPT ![c] = Done(cycles[c])]
                 /\ hist' = [hist EXCEPT ![c].remote = "ok",
                                         ![c].outcome = "Remote",
                                         ![c].renders = IF r.rendered THEN 1 ELSE 0,
                                         ![c].full = (quota /\ r.rendered),
                                         ![c].listOf = IF list = <<>> THEN "none"
                                                       ELSE cycles[c].reqService]
                 /\ isLoading' = LoadingAfter(c)
                 /\ UNCHANGED <<service, ui, clock, pure>>
        Show(list) ==
            Commit(list, renderHeadlines(list, tickerList, localStorage,
                                         currentService, now, quota))
    IN  Show(SortAndSlice(items, currentService))

\* a try block that takes a parsed value that is no array for an empty list
RemoteJsonLenient(c, kinds) ==
    /\ cycles[c].pc = "json"
    /\ \E kind \in kinds, quota \in BOOLEAN :
          LET Try(body) ==
                  IF body.kind = "unparseable"
                  THEN EnterCatch(c, tickerList)
                  ELSE RemoteSuccess(c, <<>>, quota)
          IN  Try(RemoteBody(kind, cycles[c].reqService))

\* await response.json() settles; the rest of the try block runs
RemoteJson(c, kinds) ==
    /\ cycles[c].pc = "json"
    /\ \E kind \in kinds, quota \in BOOLEAN :
          LET Try(body) ==
                  IF body.kind # "array" \/ SortThrows(body.items)
                  THEN EnterCatch(c, tickerList)
                  ELSE RemoteSuccess(c, body.items, quota)
          IN  Try(RemoteBody(kind, cycles[c].reqService))

(***************************************************************************)
(* loadFallbackFromTxt and the end of the catch branch.  this.headlines is *)
(* shared by the invocations in flight: h is its value as the running      *)
(* invocation sees it, w the invocation that assigned it (0: nobody).      *)
(* made: the stages of the running invocation (directive, direct, plain)  *)
(* that have assigned a non-empty list.                                    *)
(***************************************************************************)
\* `lines` of invocation c
Lines(c) == FilterLines(FileText(cycles[c].text, cycles[c].file))

\* the screen shows this.headlines as w assigned it
Rendered(c, w) ==
    [by |-> c, writer |-> w,
     writerDone |-> (w = c \/ w = 0 \/ cycles[w].pc = "done")]

\* loadFallbackFromTxt returns with this.headlines = h; the catch branch of
\* loadHeadlines runs to its end and the promise settles
Finish(c, h, w, made) ==
    \E denied \in BOOLEAN, quota \in BOOLEAN :
        LET Settle(r, by) ==
                /\ headlines' = r.headlines
                /\ writer' = by
                /\ tickerList' = r.tickerList
                /\ localStorage' = r.localStorage
                /\ lastRender' = IF r.renders > 0 THEN Rendered(c, by) ELSE lastRender
                /\ cycles' = [cycles EXCEPT ![c] = Done(cycles[c])]
                /\ hist' = [hist EXCEPT ![c].fb = "done",
                                        ![c].fbEmpty = (h = <<>>),
                                        ![c].produced = (made # {}),
                                        ![c].via = made,
                                        ![c].cacheRead = r.cacheRead,
                                        ![c].denied = (denied /\ r.cacheRead),
                                        ![c].full = (quota /\ r.renders > 0),
                                        ![c].outcome = r.outcome,
                                        ![c].renders = r.renders,
                                        ![c].listOf =
                                            IF r.hit /\ r.headlines # <<>>
                                            THEN currentService
                                            ELSE IF made # {} THEN cycles[c].file
                                            ELSE "none"]
                /\ isLoading' = LoadingAfter(c)
                /\ UNCHANGED <<service, offlineMode, ui, clock, pure>>
            Ended(r) ==
                Settle(r, IF r.headlines = <<>> THEN 0 ELSE IF r.hit THEN c ELSE w)
        IN  Ended(CatchTail(h, tickerList, localStorage, currentService, now,
                            denied, quota))

\* the invocation stops at an await inside the loader
Suspend(c, pcNew, kind, path, h, w, made) ==
    /\ cycles' = [cycles EXCEPT ![c].pc = pcNew, ![c].text = kind, ![c].jsonPath = path]
    /\ headlines' = h
    /\ writer' = w
    /\ hist' = [hist EXCEPT ![c].via = made]
    /\ UNCHANGED <<service, isLoading, offlineMode, tickerList, localStorage,
                   lastRender, ui, clock, pure>>

\* line 433 on: plain lines when the list is still empty
Cont433(c, lines, h, w, made) ==
    LET Plain(list) ==
            Finish(c, list, IF list = <<>> THEN 0 ELSE c,
                   made \cup (IF list = <<>> THEN {} ELSE {"plain"}))
    IN  IF h = <<>>
        THEN Plain(MapLines(lines, currentService, now))
        ELSE Finish(c, h, w, made)

\* line 405 without the test of the list: the .json line is always followed
Cont405Eager(c, kind, h, w, made) ==
    LET Direct(lines, path) ==
            IF path # <<>>
            THEN Suspend(c, "lj1", kind, path, h, w, made)
            ELSE Cont433(c, lines, h, w, made)
        Look(lines) == Direct(lines, DirectJsonPath(lines))
    IN  Look(FilterLines(FileText(kind, cycles[c].file)))

\* line 405 on: a line that points to a .json, when the list is still empty
Cont405(c, kind, h, w, made) ==
    LET Direct(lines, path) ==
            IF h = <<>> /\ path # <<>>
            THEN Suspend(c, "lj1", kind, path, h, w, made)
            ELSE Cont433(c, lines, h, w, made)
        Look(lines) == Direct(lines, DirectJsonPath(lines))
    IN  Look(FilterLines(FileText(kind, cycles[c].file)))

FbPcs == <<"fb1", "fb2", "fb3", "fb4">>

\* one of the four fetches of the text file settles
FbFetch(c, results) ==
    /\ \E i \in DOMAIN FbPcs : cycles[c].pc = FbPcs[i]
    /\ \E r \in results :
          CASE r = "ok" ->
                   /\ cycles' = [cycles EXCEPT ![c].pc = "text"]
                   /\ UNCHANGED <<service, isLoading, offlineMode, headlines, tickerList,
                                  localStorage, hist, writer, lastRender, ui, clock, pure>>
            [] r = "status" /\ cycles[c].pc # "fb4" ->
                   /\ cycles' = [cycles EXCEPT ![c].pc =
                                    FbPcs[1 + CHOOSE i \in DOMAIN FbPcs : cycles[c].pc = FbPcs[i]]]
                   /\ UNCHANGED <<service, isLoading, offlineMode, headlines, tickerList,
                                  localStorage, hist, writer, lastRender, ui, clock, pure>>
            [] OTHER -> Finish(c, headlines, writer, {})

\* await res.text() settles; the directive is looked up
FbText(c, kinds) ==
    /\ cycles[c].pc = "text"
    /\ \E kind \in kinds :
          LET Follow(path) ==
                  IF path # <<>>
                  THEN Suspend(c, "dj1", kind, path, headlines, writer, {})
                  ELSE Cont405(c, kind, headlines, writer, {})
          IN  Follow(DirectivePath(FilterLines(FileText(kind, cycles[c].file)),
                                   currentService))

\* one of the two fetches of the directive's JSON settles
DjFetch(c, results) ==
    /\ cycles[c].pc \in {"dj1", "dj2"}
    /\ \E r \in results :
          CASE r = "ok" -> Suspend(c, "djson", cycles[c].text, cycles[c].jsonPath,
                                   headlines, writer, hist[c].via)
            [] r = "status" /\ cycles[c].pc = "dj1" ->
                   Suspend(c, "dj2", cycles[c].text, cycles[c].jsonPath, headlines, writer,
                           hist[c].via)
            [] OTHER -> Cont405(c, cycles[c].text, headlines, writer, hist[c].via)

\* await jsonRes.json() of the directive settles; line 396 assigns
DjJson(c, docs) ==
    /\ cycles[c].pc = "djson"
    /\ \E kind \in docs :
          LET Assign(list) ==
                  Cont405(c, cycles[c].text, list, IF list = <<>> THEN 0 ELSE c,
                          IF list = <<>> THEN {} ELSE {"directive"})
              Load(data) ==
                  IF MapThrows(data)
                  THEN Cont405(c, cycles[c].text, headlines, writer, hist[c].via)
                  ELSE Assign(MapDirective(data, currentService, now))
          IN  Load(JsonDoc(kind))

\* one of the two fetches of the direct .json line settles
LjFetch(c, results) ==
    /\ cycles[c].pc \in {"lj1", "lj2"}
    /\ \E r \in results :
          CASE r = "ok" -> Suspend(c, "ljson", cycles[c].text, cycles[c].jsonPath,
                                   headlines, writer, hist[c].via)
            [] r = "status" /\ cycles[c].pc = "lj1" ->
                   Suspend(c, "lj2", cycles[c].text, cycles[c].jsonPath, headlines, writer,
                           hist[c].via)
            [] OTHER -> Cont433(c, Lines(c), headlines, writer, hist[c].via)

\* await jsonRes.json() of the direct line settles; line 424 assigns
LjJson(c, docs) ==
    /\ cycles[c].pc = "ljson"
    /\ \E kind \in docs :
          LET Assign(list) ==
                  Cont433(c, Lines(c), list, IF list = <<>> THEN 0 ELSE c,
                          hist[c].via \cup (IF list = <<>> THEN {} ELSE {"direct"}))
              Load(data) ==
                  IF MapThrows(data)
                  THEN Cont433(c, Lines(c), headlines, writer, hist[c].via)
                  ELSE Assign(MapDirect(data, currentService, now))
          IN  Load(JsonDoc(kind))

(***************************************************************************)
(* The ticker in a page on a first visit: invocations overlap freely.      *)
(***************************************************************************)
Step(c) ==
    \/ RemoteResponse(c, FetchResults)
    \/ RemoteJson(c, BodyKinds)
    \/ FbFetch(c, FetchResults)
    \/ FbText(c, TextKinds)
    \/ DjFetch(c, FetchResults)
    \/ DjJson(c, DocKinds)
    \/ LjFetch(c, FetchResults)
    \/ LjJson(c, DocKinds)

Next ==
    \/ serviceBtnClick
    \/ TransformTimeout
    \/ IntervalRefresh
    \/ refresh
    \/ Tick({RefreshInterval}) /\ UNCHANGED res
    \/ \E c \in Cycles : Step(c)

Spec == Init /\ [][Next]_vars

(***************************************************************************)
(* The ticker in a page on a later visit: storage holds what an earlier    *)
(* session left, and the user waits for a load to end before acting.       *)
(***************************************************************************)
Quiet == \A c \in Cycles : ~InFlight(c)

NextVisit ==
    \/ Quiet /\ serviceBtnClick
    \/ Quiet /\ serviceBtnDblClick
    \/ Quiet /\ refresh
    \/ Quiet /\ Tick({1}) /\ UNCHANGED res
    \/ \E c \in Cycles : Step(c)

SpecVisit == InitPrior /\ [][NextVisit]_vars

(***************************************************************************)
(* The service button while loads come and go.  The endpoint answers or    *)
(* fails and no fallback file is served; a promise that has settled is     *)
(* forgotten, so that the switches can follow one another.                 *)
(***************************************************************************)
Forget(c) ==
    /\ Settled(c)
    /\ writer # c
    /\ cycles' = [cycles EXCEPT ![c] = IdleCycle]
    /\ hist' = [hist EXCEPT ![c] = NoHist]
    /\ UNCHANGED <<service, isLoading, offlineMode, headlines, tickerList, localStorage,
                   writer, lastRender, ui, clock, pure>>

NextSwitch ==
    \/ currentServiceIndex < MaxSwitches /\ serviceBtnClick
    \/ TransformTimeout
    \/ serviceBtnDblClick
    \/ \E c \in Cycles :
          \/ Forget(c)
          \/ RemoteResponse(c, FetchResults)
          \/ RemoteJson(c, {"feed", "empty"})
          \/ FbFetch(c, {"reject"})

SpecSwitch == Init /\ [][NextSwitch]_vars

(***************************************************************************)
(* The service button in front of an endpoint that answers or fails and a  *)
(* fallback file that holds plain lines or is missing.                     *)
(***************************************************************************)
Completes(c) ==
    \/ RemoteResponse(c, {"ok", "reject"})
    \/ RemoteJson(c, {"feed"})
    \/ FbFetch(c, {"ok", "reject"})
    \/ FbText(c, {"plain"})

NextRelease ==
    \/ currentServiceIndex < MaxSwitches /\ serviceBtnClick
    \/ TransformTimeout
    \/ \E c \in Cycles : Forget(c) \/ Completes(c)

SpecRelease == Init /\ [][NextRelease]_vars

(***************************************************************************)
(* The service button pressed round the whole cycle, with refresh() calls  *)
(* in between, while the network is down and no fallback file is served.   *)
(***************************************************************************)
NextCycle ==
    \/ serviceBtnClick
    \/ TransformTimeout
    \/ serviceBtnDblClick
    \/ refresh
    \/ \E c \in Cycles :
          \/ Forget(c)
          \/ RemoteResponse(c, {"reject"})
          \/ FbFetch(c, {"reject"})

SpecCycle == Init /\ [][NextCycle]_vars

(***************************************************************************)
(* saveToCache and loadFromCache called directly, for one service, as the  *)
(* clock advances.  arg: the service, the list last written and when.      *)
(***************************************************************************)
\* lists a render can hand to saveToCache
SavedLists(svc) == {Slice(Feed(svc), n) : n \in 0..(MaxHeadlines + 1)}

TickSteps == {1, TTL - 1, TTL}

InitCache ==
    /\ Constructed
    /\ localStorage = EmptyStore
    /\ \E svc \in Services :
          arg = [op |-> "none", svc |-> svc, list |-> <<>>, at |-> 0]
    /\ res = NoCall

CacheSave ==
    /\ \E list \in SavedLists(arg.svc) :
          /\ localStorage' = saveToCache(localStorage, arg.svc, list, now, FALSE)
          /\ arg' = [arg EXCEPT !.op = "save", !.list = list, !.at = now]
    /\ UNCHANGED <<service, isLoading, offlineMode, headlines, tickerList, cycles, hist,
                   writer, lastRender, ui, clock, res>>

CacheLoad ==
    /\ arg.op = "save"
    /\ \E quota \in BOOLEAN :
          LET Read(r) ==
                  /\ res' = [op |-> "load", readAt |-> now, writtenAt |-> arg.at,
                             written |-> arg.list, hit |-> r.hit,
                             headlines |-> r.headlines,
                             left |-> r.localStorage[CacheKey(arg.svc)]]
                  /\ localStorage' = r.localStorage
                  /\ arg' = IF r.hit
                            THEN [arg EXCEPT !.at = IF r.renders > 0 /\ ~quota
                                                    THEN now ELSE @]
                            ELSE [arg EXCEPT !.op = "none"]
          IN  Read(loadFromCache(<<>>, <<>>, localStorage, arg.svc, now, FALSE, quota))
    /\ UNCHANGED <<service, isLoading, offlineMode, headlines, tickerList, cycles, hist,
                   writer, lastRender, ui, clock>>

NextCache ==
    \/ CacheSave
    \/ CacheLoad
    \/ Tick(TickSteps) /\ UNCHANGED res

SpecCache == InitCache /\ [][NextCache]_vars

(***************************************************************************)
(* The sort of loadHeadlines applied to a response.                        *)
(***************************************************************************)
MaxItems == 3

\* records a response can hold: sources that match in either case, sources
\* that do not, equal and missing ts
SortPool ==
    { [source |-> pafcTv, title |-> <<"a">>, ts |-> 1],
      [source |-> herald, title |-> <<"b">>, ts |-> 2],
      [source |-> bbc, title |-> <<"c">>, ts |-> 2],
      [source |-> bbc, title |-> <<"d">>, ts |-> 3],
      [source |-> bbc, title |-> <<"e">>],
      [title |-> <<"f">>, ts |-> 1] }

Responses == UNION {[1..n -> SortPool] : n \in 0..MaxItems}

InitSort ==
    /\ Constructed
    /\ localStorage = EmptyStore
    /\ \E list \in Responses, svc \in {"sports", "news"} :
          arg = [op |-> "sort", list |-> list, svc |-> svc]
    /\ res = NoCall

Sort ==
    /\ res = NoCall
    /\ res' = [op |-> "sort",
               sorted |-> SortHeadlines(arg.list, arg.svc),
               capped |-> SortAndSlice(arg.list, arg.svc)]
    /\ UNCHANGED <<service, isLoading, offlineMode, headlines, tickerList, localStorage,
                   cycles, hist, writer, lastRender, ui, clock, arg>>

SpecSort == InitSort /\ [][Sort]_vars

(***************************************************************************)
(* The ticker in front of an endpoint that answers 200 with a body that is *)
(* no JSON array: text that does not parse, or a JSON object.              *)
(***************************************************************************)
NextBody ==
    \/ currentServiceIndex < MaxSwitches /\ serviceBtnClick
    \/ TransformTimeout
    \/ \E c \in Cycles :
          \/ RemoteResponse(c, {"ok"})
          \/ RemoteJson(c, {"object", "unparseable"})
          \/ FbFetch(c, FetchResults)
          \/ FbText(c, {"plain", "blank"})

SpecBody == Init /\ [][NextBody]_vars

(***************************************************************************)
(* The mapping of one item of a JSON resource, on each route by which the  *)
(* loader reaches a resource.  arg: the route, the service and the item.   *)
(***************************************************************************)
ItemFields == {"hashtag", "username", "comment", "url", "source", "ts"}

\* the value of a property of an item
FieldValue(k) ==
    CASE k = "hashtag" -> <<"#","x">>
      [] k = "username" -> <<"u">>
      [] k = "comment" -> <<"h","i">>
      [] k = "url" -> <<"/","j">>
      [] k = "source" -> <<"b","b","c">>
      [] k = "ts" -> 5

\* the objects a resource can hold: any of the properties may be absent
ItemPool == {[k \in D |-> FieldValue(k)] : D \in SUBSET ItemFields}

InitMap ==
    /\ Constructed
    /\ localStorage = EmptyStore
    /\ \E route \in {"service-file", "json-file", "direct"}, svc \in Services,
             item \in ItemPool :
          arg = [op |-> "map", route |-> route, svc |-> svc, item |-> item]
    /\ res = NoCall

\* line 396 or line 424 on a resource that holds the one item
Map ==
    /\ res = NoCall
    /\ res' = [op |-> "map",
               list |-> IF arg.route = "direct"
                        THEN MapDirect([kind |-> "array", items |-> <<arg.item>>],
                                       arg.svc, now)
                        ELSE MapDirective([kind |-> "array", items |-> <<arg.item>>],
                                          arg.svc, now)]
    /\ UNCHANGED <<service, isLoading, offlineMode, headlines, tickerList, localStorage,
                   cycles, hist, writer, lastRender, ui, clock, arg>>

SpecMap == InitMap /\ [][Map]_vars

(***************************************************************************)
(* The URL of the remote request.  The constructor computes the endpoint   *)
(* from options.endpoint, window.NEWS_API_ENDPOINT and location.hostname   *)
(* (<<>>: absent or empty); loadHeadlines adds the service to it.          *)
(* arg: the three inputs and the current service.                          *)
(***************************************************************************)
renderEndpoint ==
    <<"h","t","t","p","s",":","/","/","a","j","a","n","n","e","r",".","o","n","r","e","n","d","e","r",".","c","o","m","/","a","p","i","/","n","e","w","s">>

localEndpoint == <<"/","a","p","i","/","n","e","w","s">>

localhost == <<"l","o","c","a","l","h","o","s","t">>

loopback == <<"1","2","7",".","0",".","0",".","1">>

serviceParam == <<"?","s","e","r","v","i","c","e","=">>

\* computedDefaultEndpoint
ComputedDefaultEndpoint(windowEndpoint, hostname) ==
    IF windowEndpoint # <<>> THEN windowEndpoint
    ELSE IF hostname # <<>> /\ hostname # localhost /\ hostname # loopback
    THEN renderEndpoint
    ELSE localEndpoint

\* this.options.endpoint
OptionsEndpoint(optEndpoint, windowEndpoint, hostname) ==
    IF optEndpoint # <<>> THEN optEndpoint
    ELSE ComputedDefaultEndpoint(windowEndpoint, hostname)

\* an endpoint that adds the service whatever it is
EndpointAlways(base, svc) == base \o serviceParam \o ServiceChars(svc)

\* `endpoint` of loadHeadlines for the current service svc
Endpoint(base, svc) ==
    IF svc # "news" THEN base \o serviceParam \o ServiceChars(svc) ELSE base

\* the part of a URL before its first "?" and the part after it
PathOf(url) ==
    IF \E i \in DOMAIN url : url[i] = "?"
    THEN SubSeq(url, 1, (CHOOSE i \in DOMAIN url :
                            url[i] = "?" /\ \A j \in 1..(i - 1) : url[j] # "?") - 1)
    ELSE url

QueryOf(url) == SubSeq(url, Len(PathOf(url)) + 2, Len(url))

InitUrl ==
    /\ Constructed
    /\ localStorage = EmptyStore
    /\ \E o \in {<<>>, <<"/","n">>, <<"h","t","t","p",":","/","/","h","/","v","1","/","f","e","e","d">>},
          w \in {<<>>, <<"/","w">>},
          h \in {<<>>, localhost, loopback, <<"a",".","i","o">>},
          svc \in Services :
          arg = [op |-> "url", svc |-> svc, optEndpoint |-> o, windowEndpoint |-> w,
                 hostname |-> h]
    /\ res = NoCall

\* the constructor's endpoint, then lines 223-226 for a ticker whose current
\* service is arg.svc
BuildUrl ==
    /\ res = NoCall
    /\ res' = [op |-> "url",
               base |-> OptionsEndpoint(arg.optEndpoint, arg.windowEndpoint, arg.hostname),
               url |-> Endpoint(OptionsEndpoint(arg.optEndpoint, arg.windowEndpoint,
                                                arg.hostname), arg.svc)]
    /\ UNCHANGED <<service, isLoading, offlineMode, headlines, tickerList, localStorage,
                   cycles, hist, writer, lastRender, ui, clock, arg>>

SpecUrl == InitUrl /\ [][BuildUrl]_vars

(***************************************************************************)
(* Properties.                                                             *)
(***************************************************************************)
\* invocation c settles in this step with one of the outcomes
Ends(c, outcomes) == hist[c].outcome = "none" /\ hist'[c].outcome \in outcomes

\* C1: a resolve cycle never propagates an exception to its caller and always
\* finishes in exactly one of the outcomes Remote, Fallback, Cache or Empty.
C1_NeverThrows ==
    \A c \in Cycles :
        Settled(c) => hist[c].outcome \in {"Remote", "Fallback", "Cache", "Empty"}

\* C2: the stages of a cycle run in strict fallback order: the fallback loader
\* is invoked only after the remote fetch of the cycle has failed; the cache
\* is read only after that failure and after the loader has finished with an
\* empty list, never on a cycle whose remote fetch succeeded or whose loader
\* produced a non-empty list.
C2_FallbackOrder ==
    \A c \in Cycles :
        /\ hist[c].fb # "none" => hist[c].remote = "failed"
        /\ hist[c].cacheRead =>
              /\ hist[c].remote = "failed"
              /\ hist[c].fb = "done"
              /\ hist[c].fbEmpty
              /\ ~hist[c].produced
        /\ hist[c].remote = "ok" => ~hist[c].cacheRead /\ hist[c].fb = "none"

C2_Witness ==
    \E c \in Cycles : hist[c].cacheRead /\ hist[c].outcome = "Cache"

\* C3: a cycle that ends with outcome Fallback, on a non-empty list of the
\* fallback loader, writes nothing to the cache: every entry is as before.
C3_FallbackNoCacheWrite ==
    [][\A c \in Cycles :
          (Ends(c, {"Fallback"}) /\ hist'[c].produced) => localStorage' = localStorage]_vars

\* C4: every remote failure sets the offline flag before the fallback loader
\* is invoked; the flag goes from true to false only when a Remote outcome
\* completes; Fallback, Cache and Empty outcomes never reset it.
C4_OfflineFlag ==
    [][/\ \A c \in Cycles :
             /\ (hist[c].remote = "pending" /\ hist'[c].remote = "failed") => offlineMode'
             /\ (hist[c].fb = "none" /\ hist'[c].fb # "none") => offlineMode'
             /\ Ends(c, {"Fallback", "Cache", "Empty"}) => offlineMode' = offlineMode
       /\ (offlineMode /\ ~offlineMode') => \E c \in Cycles : Ends(c, {"Remote"})]_vars

C4_Witness ==
    /\ ~offlineMode
    /\ \E c, d \in Cycles : hist[c].outcome = "Fallback" /\ hist[d].outcome = "Remote"

\* C5: an entry written at time T is returned by a read at any T' < T + TTL;
\* a read at T' >= T + TTL treats it as absent and deletes it from storage.
C5_CacheTTL ==
    res.op = "load" =>
        IF res.readAt < res.writtenAt + TTL
        THEN res.hit
        ELSE ~res.hit /\ res.headlines = <<>> /\ res.left = NoItem

C5_Witness ==
    /\ res.op = "load"
    /\ res.readAt = res.writtenAt + TTL
    /\ res.written # <<>>
    /\ res.left = NoItem

\* C6: a list written to the cache of a service and read back before the TTL
\* expires equals the written list: same elements, same order, same fields.
C6_RoundTrip ==
    (res.op = "load" /\ res.readAt < res.writtenAt + TTL) =>
        res.headlines = res.written

C6_Witness ==
    /\ res.op = "load"
    /\ res.hit
    /\ Len(res.headlines) > MaxHeadlines
    /\ \E i \in DOMAIN res.headlines : ~Has(res.headlines[i], "ts")

\* C7: for service sports every record whose source contains the priority
\* substring, in any case, precedes every record that does not, whatever the
\* timestamps, and each of the two partitions is in descending ts order, a
\* missing ts counting as 0; for any other service the whole list is in
\* descending ts order.
C7_SortPolicy ==
    res.op = "sort" =>
        /\ \A i, j \in DOMAIN res.sorted :
              i < j =>
                 IF arg.svc = "sports"
                 THEN /\ IsPlymouth(res.sorted[j]) => IsPlymouth(res.sorted[i])
                      /\ (IsPlymouth(res.sorted[i]) = IsPlymouth(res.sorted[j])) =>
                            TsOr0(res.sorted[i]) >= TsOr0(res.sorted[j])
                 ELSE TsOr0(res.sorted[i]) >= TsOr0(res.sorted[j])
        /\ res.capped = Slice(res.sorted, MaxHeadlines)
        /\ \A x \in SortPool :
              Cardinality({i \in DOMAIN res.sorted : res.sorted[i] = x})
                 = Cardinality({i \in DOMAIN arg.list : arg.list[i] = x})

C7_Witness ==
    /\ res.op = "sort"
    /\ arg.svc = "sports"
    /\ Len(res.sorted) = MaxItems
    /\ IsPlymouth(res.sorted[1])
    /\ ~IsPlymouth(res.sorted[2])
    /\ TsOr0(res.sorted[1]) < TsOr0(res.sorted[2])
    /\ res.sorted # arg.list

\* C8: after any resolve cycle, whatever its outcome, the current headline
\* list has at most maxHeadlines elements.
C8_Truncation ==
    (Quiet /\ \E c \in Cycles : Settled(c)) => Len(headlines) <= MaxHeadlines

\* C9 as stated: while any resolve cycle is in flight, however it was started,
\* a click on the service button leaves the service, the index and the list
\* as they are and starts no fetch.
C9_ClickRejectedInFlight ==
    [][((\E c \in Cycles : InFlight(c)) /\ serviceBtnClick) =>
          UNCHANGED <<service, headlines, cycles>>]_vars

\* C9 amended: while the cycle of a service switch is in flight (the loading
\* flag is set) a click on the service button is rejected: it is acknowledged
\* on the button and nothing else changes, so the service, the index and the
\* list stay, no fetch is started and nothing is kept for later; no step
\* taken meanwhile switches the service.
C9_ClickRejectedWhileSwitching ==
    [][isLoading =>
          /\ UNCHANGED service
          /\ \A c \in Cycles : cycles'[c].trigger = "switch" => cycles[c].trigger = "switch"
          /\ serviceBtnClick =>
                /\ btnTransform' = "scale(0.95)"
                /\ UNCHANGED <<isLoading, offlineMode, hidden, headlines, tickerList,
                               localStorage, cycles, hist, clock>>]_vars

C9_Witness ==
    /\ isLoading
    /\ btnTransform = "scale(0.95)"
    /\ \E c \in Cycles : InFlight(c) /\ cycles[c].trigger = "switch"

\* C10: under every interleaving, the list a render shows is the complete
\* list that one stage of one cycle assigned, and that cycle is the rendering
\* one or has finished: never a partial list, never the list of another cycle
\* still in flight.
C10_AtomicSwap ==
    /\ lastRender.writerDone
    /\ lastRender.by # 0 => lastRender.writer # 0
    /\ Len(tickerList) % 2 = 0
    /\ SubSeq(tickerList, 1, Len(tickerList) \div 2)
          = SubSeq(tickerList, Len(tickerList) \div 2 + 1, Len(tickerList))
    /\ writer # 0 => ~InFlight(writer)

C10_Witness ==
    /\ lastRender.by # 0
    /\ lastRender.writer # 0
    /\ lastRender.writer # lastRender.by

\* the service whose data the list assigned by invocation w is: the service
\* the request was issued for, the service of the fallback file, or the
\* service of the cache key
ServiceOf(w) == IF w = 0 THEN "none" ELSE hist[w].listOf

\* C11: an accepted switch empties the list held and the list displayed
\* before it issues the request, and from then until the new cycle renders
\* no headline of the previous service is held or displayed.
C11_NoStaleDuringSwitch ==
    \A c \in Cycles :
        (cycles[c].trigger = "switch" /\ InFlight(c)) =>
            /\ headlines # <<>> => ServiceOf(writer) = currentService
            /\ tickerList # <<>> => ServiceOf(lastRender.writer) = currentService


\* C12: after every cycle that ends Remote for a service, whatever the length
\* of the array, the cache entry of that service holds exactly the sorted and
\* truncated list that was resolved, stamped with the time of the resolution.
C12_WriteThrough ==
    [][\A c \in Cycles :
          Ends(c, {"Remote"}) =>
              localStorage'[CacheKey(cycles[c].reqService)] =
                  StoredText(Stringify([headlines |-> headlines', timestamp |-> now]))]_vars


\* C13: a cycle renders exactly when it ends with a non-empty list, and a cycle
\* that ends Empty has rendered nothing and has left the ticker as it was.
C13_RenderIffNonEmpty ==
    [][\A c \in Cycles :
          Ends(c, {"Remote", "Fallback", "Cache", "Empty"}) =>
              /\ hist'[c].renders > 0 <=> headlines' # <<>>
              /\ hist'[c].outcome = "Empty" =>
                     ~hist'[c].blanked /\ tickerList' = tickerList]_vars


\* the list of the entry of svc in store
EntryList(store, svc) == Parse(store[CacheKey(svc)].json).headlines

\* the entry of svc in store is a non-empty list of headlines less than one
\* hour old at t
FreshEntry(store, svc, t) ==
    /\ store[CacheKey(svc)].kind = "text"
    /\ EntryList(store, svc) # <<>>
    /\ \A i \in DOMAIN EntryList(store, svc) : ~IsNull(EntryList(store, svc)[i])
    /\ t - Parse(store[CacheKey(svc)].json).timestamp < TTL

\* C14: when the remote fetch has failed, the fallback loader has left the list
\* empty and the cache holds a non-empty entry of the current service younger
\* than the TTL, the cycle ends Cache and the list is the list of that entry.
C14_CacheRecovery ==
    [][\A c \in Cycles :
          ( /\ Ends(c, {"Remote", "Fallback", "Cache", "Empty", "Threw"})
            /\ hist'[c].remote = "failed"
            /\ hist'[c].fbEmpty
            /\ ~hist'[c].denied
            /\ FreshEntry(localStorage, currentService, now) ) =>
              /\ hist'[c].outcome = "Cache"
              /\ headlines' = EntryList(localStorage, currentService)]_vars

\* a cycle has recovered the list of the entry an earlier session left
C14_Witness ==
    \E c \in Cycles :
        /\ hist[c].remote = "failed" /\ hist[c].fbEmpty /\ ~hist[c].denied
        /\ hist[c].outcome = "Cache"
        /\ Len(headlines) > MaxHeadlines


\* the lines that begin with prefix, whatever the case of their letters
LinesWith(lines, prefix) ==
    SelectSeq(lines, LAMBDA l : StartsWith(ToLowerCase(l), prefix))

\* the lines an invocation has read, while it is inside the loader
LinesRead(cycle) == FilterLines(FileText(cycle.text, cycle.file))

\* C15: when the text holds a `<service>-file` line of the current service
\* and a `json-file` line, in either order, the resource fetched is the one the
\* service line names; the direct .json line is tried only when no directive
\* has produced a non-empty list, and the literal lines are used only when no
\* JSON resolution has produced one.
C15_DirectivePrecedence ==
    [][\A c \in Cycles :
          /\ ( /\ cycles[c].pc = "text"
               /\ cycles'[c].pc \notin {"text", "done"}
               /\ LinesWith(LinesRead(cycles'[c]), ServiceChars(currentService) \o fileSuffix) # <<>>
               /\ LinesWith(LinesRead(cycles'[c]), jsonFile) # <<>> ) =>
                 /\ cycles'[c].pc = "dj1"
                 /\ cycles'[c].jsonPath =
                        SplitWords(Head(LinesWith(LinesRead(cycles'[c]),
                                                  ServiceChars(currentService) \o fileSuffix)))[2]
          /\ (cycles[c].pc # "lj1" /\ cycles'[c].pc = "lj1") =>
                 "directive" \notin hist'[c].via
          /\ "plain" \in hist'[c].via => hist'[c].via = {"plain"}]_vars

\* the service line has won in a text where it comes second and in a text
\* where it comes first
C15_Witness ==
    \E c, d \in Cycles :
        /\ cycles[c].pc = "dj1" /\ cycles[c].text = "both"
        /\ cycles[c].jsonPath = <<"/","s",".","j","s","o","n">>
        /\ cycles[d].pc = "dj1" /\ cycles[d].text = "swapped"
        /\ cycles[d].jsonPath = <<"/","s",".","j","s","o","n">>


\* C16: the loader tries /backup-<file>, backup-<file>, /<file>, <file> in
\* this order and stops at the first that is available: whatever the failure
\* of one of the first three, it either reads that resource or goes on to the
\* next URL, and it gives up only after the fourth.
C16_FourUrlsInOrder ==
    [][\A c \in Cycles : \A i \in 1..3 :
          (cycles[c].pc = FbPcs[i] /\ cycles'[c] # cycles[c]) =>
              cycles'[c].pc \in {"text", FbPcs[i + 1]}]_vars


\* C17: for the service tweets, every headline built from a JSON resource, on
\* any of the three routes, has the source TWITTER, the profile link of the
\* username as url when there is a username (else the url of the item, else
\* "#"), and the time of the resolution as ts.
C17_TweetShape ==
    (res.op = "map" /\ arg.svc = "tweets") =>
        \A i \in DOMAIN res.list :
            /\ res.list[i].source = <<"T","W","I","T","T","E","R">>
            /\ res.list[i].url =
                   IF Truthy(arg.item, "username") THEN twitterCom \o arg.item.username
                   ELSE IF Truthy(arg.item, "url") THEN arg.item.url
                   ELSE hashUrl
            /\ res.list[i].ts = now


\* the value stored for svc does not parse, or is not a list of headlines
Corrupt(store, svc) ==
    \/ store[CacheKey(svc)].kind = "garbage"
    \/ /\ store[CacheKey(svc)].kind = "text"
       /\ \E i \in DOMAIN EntryList(store, svc) : IsNull(EntryList(store, svc)[i])

\* C18: the cache store never raises to its callers.  When the read throws or
\* the stored value is corrupt the read is a miss: the list stays empty and
\* the cycle, which had recovered nothing else, ends Empty.  When the write
\* throws the render is complete all the same and the cycle ends as it would.
C18_CacheNeverRaises ==
    [][\A c \in Cycles :
          Ends(c, {"Remote", "Fallback", "Cache", "Empty", "Threw"}) =>
              /\ ( /\ hist'[c].cacheRead
                   /\ hist'[c].denied \/ Corrupt(localStorage, currentService) ) =>
                     hist'[c].outcome = "Empty" /\ headlines' = <<>>
              /\ hist'[c].full =>
                     /\ hist'[c].outcome \in {"Remote", "Fallback", "Cache"}
                     /\ tickerList' = headlines' \o headlines'
                     /\ localStorage' = localStorage]_vars


\* C19: no generation check and no cancellation.  The list of a response is
\* installed and rendered whatever the current service has become since the
\* request was issued, so a list requested for one service can be the one
\* held and shown while another service is current.
C19_StaleInstall ==
    [][\A c \in Cycles :
          (Ends(c, {"Remote"}) /\ hist'[c].listOf # "none") =>
              /\ writer' = c
              /\ headlines' # <<>>
              /\ tickerList' = headlines' \o headlines'
              /\ lastRender'.by = c]_vars

\* the response to the request for sports is the list held and shown while
\* local is the current service
C19_Witness ==
    \E c \in Cycles :
        /\ cycles[c].reqService = "sports" /\ hist[c].outcome = "Remote"
        /\ currentService = "local"
        /\ writer = c
        /\ headlines = SortAndSlice(Feed("sports"), "local")
        /\ tickerList = headlines \o headlines


\* C20: a body that does not parse, or that parses to something else than an
\* array, is a failure of the remote fetch: the cycle goes to the fallback stage
\* with the list empty, nothing of the body is installed, rendered or stored,
\* and the endpoint is not requested a second time in the cycle.
C20_BadBodyIsFailure ==
    [][\A c \in Cycles :
          /\ (cycles[c].pc = "json" /\ cycles'[c] # cycles[c]) =>
                 /\ cycles'[c].pc = "fb1"
                 /\ hist'[c].remote = "failed" /\ hist'[c].renders = 0
                 /\ offlineMode'
                 /\ headlines' = <<>>
                 /\ tickerList' = tickerList
                 /\ localStorage' = localStorage
                 /\ lastRender' = lastRender
          /\ cycles[c].pc \notin {"idle", "fetch"} => cycles'[c].pc # "fetch"
          /\ hist'[c].outcome # "Remote"]_vars

\* a cycle whose body was no array has ended with the lines of the fallback
\* file
C20_Witness ==
    \E c \in Cycles :
        /\ hist[c].remote = "failed" /\ hist[c].outcome = "Fallback"
        /\ writer = c
        /\ headlines = MapLines(FilterLines(plainText), currentService, now)


\* C21: the URL requested is the base endpoint followed by the query
\* parameter service=<service> for every current service other than news,
\* and the base endpoint alone, with no query, for news.
C21_RequestUrl ==
    res.op = "url" =>
        /\ PathOf(res.url) = res.base
        /\ QueryOf(res.url) =
               IF arg.svc = "news" THEN <<>>
               ELSE <<"s","e","r","v","i","c","e","=">> \o ServiceChars(arg.svc)
        /\ arg.svc = "news" => res.url = res.base

\* the URL was built for tweets on a ticker served from a public host
C21_Witness ==
    /\ res.op = "url"
    /\ arg.svc = "tweets"
    /\ res.base = renderEndpoint
    /\ res.url = renderEndpoint \o serviceParam \o ServiceChars("tweets")


\* C22: under every interleaving, the entry stored under the key of a service
\* holds only headlines resolved by a request issued for that service: every
\* write of an entry stores a list that was resolved for the service of its key.
C22_CacheKeyIntegrity ==
    [][\A s \in Services :
          ( /\ localStorage'[CacheKey(s)] # localStorage[CacheKey(s)]
            /\ localStorage'[CacheKey(s)].kind = "text" ) =>
              writer' # 0 /\ hist'[writer'].listOf = s]_vars


\* C23: a cycle that ends Cache leaves the entry it has read as it was, its
\* timestamp included, so that the age of a cached list keeps counting from
\* the time it was first written.
C23_CacheHitKeepsEntry ==
    [][\A c \in Cycles :
          Ends(c, {"Cache"}) =>
              localStorage'[CacheKey(currentService)] =
                  localStorage[CacheKey(currentService)]]_vars


\* C24: when every fetch of the cycle completes, the loading flag set by an
\* accepted switch returns to false, whichever way the cycle ends, and the
\* click that follows is not rejected; the flag is true only while the cycle
\* of a switch is in flight.
C24_LoadingFlagReleased ==
    /\ [](isLoading => \E c \in Cycles : cycles[c].trigger = "switch" /\ InFlight(c))
    /\ (\A c \in Cycles : \A p \in {"fetch", "json", "fb1", "fb2", "fb3", "fb4", "text"} : []<>(cycles[c].pc # p)) =>
           \A c \in Cycles :
               (cycles[c].trigger = "switch" /\ InFlight(c)) ~> (~isLoading /\ ~ClickBlocked)

\* the cycle of a switch has ended from the cache and the flag is down
C24_Witness ==
    \E c \in Cycles :
        /\ cycles[c].trigger = "switch" /\ Settled(c)
        /\ hist[c].outcome = "Cache"
        /\ ~isLoading

\* C25: after setup the current service is the entry of the fixed cycle
\* (sports, local, news, weather, tweets, entertainment) at the current
\* index in every reachable state; an accepted switch advances the index by
\* exactly one modulo six, every other step (a rejected click, a refresh, a
\* settling load) leaves index and service as they are, and six accepted
\* switches lead back to the service they started from.
C25_ServiceCycle ==
    /\ [](/\ serviceCycle = <<"sports", "local", "news", "weather", "tweets",
                               "entertainment">>
          /\ currentServiceIndex \in 0..5
          /\ currentService = serviceCycle[currentServiceIndex + 1]
          /\ NextIndex(NextIndex(NextIndex(NextIndex(NextIndex(NextIndex(
                 currentServiceIndex)))))) = currentServiceIndex)
    /\ [][IF \E c \in Cycles : ~Started(c) /\ cycles'[c].trigger = "switch"
          THEN /\ currentServiceIndex' = (currentServiceIndex + 1) % 6
               /\ currentServiceIndex' = NextIndex(currentServiceIndex)
          ELSE UNCHANGED service]_vars

\* the sixth accepted switch has brought the ticker back to sports, and a
\* click made while it loads has been rejected
C25_Witness ==
    /\ \E c \in Cycles : /\ cycles[c].trigger = "switch"
                          /\ cycles[c].reqService = "sports"
                          /\ InFlight(c)
    /\ \E c \in Cycles : cycles[c].trigger = "refresh" /\ InFlight(c)
    /\ currentService = "sports"
    /\ currentServiceIndex = 0
    /\ btnTransform = "scale(0.95)"

\* C26: a resolve cycle issues at most one render and at most one cache write,
\* whichever stage produced its list.  hist[c].renders counts the calls of
\* renderHeadlines that put the list of cycle c on screen, each of which ends
\* with one call of saveToCache.
C26_OneRenderOneWrite == \A c \in Cycles : hist[c].renders <= 1

====
